---- MODULE Spec2Model ----
(***************************************************************************)
(* State-machine model of UniFlash's flash orchestration pipeline          *)
(* (src/UniFlash/core.py): flash_device and the functions it calls, the    *)
(* status sink print_with_color, the cancellation check check_kill_signal, *)
(* the progress thread ReportCopyProgress and cleanup.                     *)
(*                                                                         *)
(* One behaviour is one call of flash_device.  The pipeline thread         *)
(* advances one statement (one called function) per step; the GUI thread   *)
(* may set the kill flag and the progress thread may poll between any two  *)
(* of its steps.  What the operating system answers (administrator or not, *)
(* exit codes of PowerShell and diskpart, I/O errors, the network) is      *)
(* chosen nondeterministically at the step that asks for it.               *)
(*                                                                         *)
(* Spec is one session.  SpecFair adds that the threads keep running.      *)
(* SpecSecondInstall lets Install be clicked once more during the session. *)
(* SpecParams applies check_runtime_parameters to bounded arguments, and   *)
(* SpecReports calls the operations outside flash_device that make red     *)
(* reports.  SpecWorkaround calls workaround.support_windows_7_uefi_boot   *)
(* repeatedly on the same media.                                           *)
(***************************************************************************)
EXTENDS Integers, Sequences, FiniteSets, TLC

VARIABLES
    gui,                    \* core.gui is not None (a UniFlash_handler is attached)
    kill_at,                \* "" while gui.kill is False; else the stage in which it was set
    gui_state,              \* gui.state
    gui_error,              \* gui.error
    reports,                \* every print_with_color call so far: <<text, color>>
    pc,                     \* position of the pipeline thread in flash_device
    req,                    \* the arguments of the flash request
    target_filesystem_type, \* flash_device's local of that name
    tree,                   \* the files os.walk finds under source_fs_mountpoint
    calls,                  \* every pipeline operation begun so far, with its result
    idx,                    \* copy loop: index in tree of the next file
    copied,                 \* indexes of the files shutil.copy2 has copied
    CopyFiles_handle,       \* the progress thread: "unstarted", "running", "terminated"
    stop,                   \* CopyFiles_handle.stop
    file,                   \* CopyFiles_handle.file (index in tree of the current file, 0 = "")
    temp_directory,         \* whether the scratch directory exists
    pending,                \* how the try block was left, while the finally block runs
    outcome,                \* how flash_device ended: "" while it has not
    second_cleanup,         \* how the handler's own cleanup call ended: "" while not made
    params,                 \* the arguments of a check_runtime_parameters call
    params_result,          \* what that call answered: "" while it has not
    source_mounted,         \* Mount-DiskImage has attached the source image
    replaced,               \* core.gui is a handler constructed after this session's
    message,                \* the message box on_install has shown: "" while none
    mountpoints,            \* the media the Windows 7 workaround is applied to
    extractions             \* how each call of support_windows_7_uefi_boot ended

vars == <<gui, kill_at, gui_state, gui_error, reports, pc, req,
          target_filesystem_type, tree, calls, idx, copied, CopyFiles_handle,
          stop, file, temp_directory, pending, outcome, second_cleanup,
          params, params_result, source_mounted, replaced, message,
          mountpoints, extractions>>

---------------------------------------------------------------------------
(* Bounds and input domains *)

\* Largest number of files in the source tree.
MaxFiles == 2

\* Largest number of device steps of one run whose PowerShell or diskpart
\* command exits non-zero.
MaxDeviceFaults == 1

\* File sizes are pairs <<hi, lo>> standing for hi * 2^16 + lo bytes, lo < 2^16.
\* (2 ** 32) - 1 is <<65535, 65535>>.
FAT32_MAX_FILESIZE == <<65535, 65535>>

\* a > b on sizes
SizeGt(a, b) == a[1] > b[1] \/ (a[1] = b[1] /\ a[2] > b[2])

\* A file of the tree: its size and whether it lies in a subdirectory.  The
\* sizes are exactly 4 GiB - 1, exactly 4 GiB, and 1 KiB.
Files == {[size |-> <<65535, 65535>>, nested |-> FALSE],
          [size |-> <<65536, 0>>, nested |-> FALSE],
          [size |-> <<0, 1024>>, nested |-> TRUE]}

\* os.walk is top-down: the files of the root come before those of its
\* subdirectories.  The files of the root are listed by size: their order
\* changes nothing here.
WalkOrder(t) ==
    \A i \in 1..(Len(t) - 1) :
        /\ t[i].nested => t[i + 1].nested
        /\ (~t[i].nested /\ ~t[i + 1].nested) => ~SizeGt(t[i].size, t[i + 1].size)

Trees == {t \in UNION {[1..n -> Files] : n \in 0..MaxFiles} : WalkOrder(t)}

\* gui.py offers "NTFS" or "FAT"
FilesystemTypes == {"FAT", "NTFS"}

DEFAULT_NEW_FS_LABEL == "USB"

Labels == {DEFAULT_NEW_FS_LABEL, "WIN10"}

\* os.path.isfile(source_media) is true of "file" only
SourceMedia == {"file", "missing", "directory"}

\* A target is a sequence of characters: "X:" and "X:\".
TargetMedia == {<<"X", ":">>, <<"X", ":", "\\">>}

\* UniFlash_handler.run passes install_mode="device"
InstallModes == {"device"}

Requests == [source_media : SourceMedia, target_device : TargetMedia,
             install_mode : InstallModes,
             target_filesystem_type : FilesystemTypes,
             filesystem_label : Labels]

NoMountpoints == [source |-> {}, target |-> {}, mounted |-> FALSE]

NoParams == [install_mode |-> "", source_media |-> "", target_media |-> <<>>]

NoRequest == [source_media |-> "", target_device |-> <<>>, install_mode |-> "",
              target_filesystem_type |-> "", filesystem_label |-> ""]

---------------------------------------------------------------------------
(* The status sink *)

Sink == [state |-> gui_state, error |-> gui_error, log |-> reports]

\* print_with_color: with a handler attached the text becomes gui.state and,
\* for "red", gui.error; without one it is written out.  The log keeps every
\* call.
print_with_color(s, text, color) ==
    [state |-> IF gui THEN text ELSE s.state,
     error |-> IF gui /\ color = "red" THEN text ELSE s.error,
     log   |-> Append(s.log, <<text, color>>)]

SetSink(s) ==
    /\ gui_state' = s.state
    /\ gui_error' = s.error
    /\ reports' = s.log

\* A fatal report after which control falls through to the end of the try
\* block
AfterRedFallsThrough == "normal"

\* How control continues after print_with_color(..., "red") followed by
\* "return 1": sys.exit() inside print_with_color when a handler is attached.
AfterRed == IF gui THEN "SystemExit" ELSE "return_1"

\* The kill flag of this session's handler
gui_kill == kill_at # ""

\* check_kill_signal raises SystemExit when core.gui is not None and
\* core.gui.kill is set.  core.gui is the handler constructed last: a handler
\* constructed after this session's has its kill flag at the class default,
\* False.
check_kill_signal == gui /\ (IF replaced THEN FALSE ELSE gui_kill)

---------------------------------------------------------------------------
(* The call log *)

\* An entry: the operation, what it answered, the function that called it and,
\* for create_target_partition, the filesystem type and label it was given.
Call(op, result, caller) ==
    [op |-> op, result |-> result, caller |-> caller, fs |-> "", label |-> ""]

FsCall(op, result, caller, fs, label) ==
    [op |-> op, result |-> result, caller |-> caller, fs |-> fs, label |-> label]

Ops(log) == {log[i].op : i \in 1..Len(log)}

Count(log, op) == Cardinality({i \in 1..Len(log) : log[i].op = op})

\* The device steps so far whose command exited non-zero
DeviceFaults == Cardinality({i \in 1..Len(calls) : calls[i].result \in {"failed", "error"}
                                                    /\ calls[i].op # "mount_source_filesystem"
                                                    /\ calls[i].op # "urlretrieve"})

MayFault == DeviceFaults < MaxDeviceFaults

---------------------------------------------------------------------------
(* try / finally of flash_device *)

\* Leaving the try block, by return, by an exception that the except clause
\* does not catch, or by reaching its end: the finally block runs next.
LeaveSkippingFinallyOnExit(kind) ==
    IF kind = "SystemExit"
    THEN /\ pc' = "done"
         /\ pending' = kind
         /\ outcome' = "SystemExit"
    ELSE /\ pc' = "cleanup"
         /\ pending' = kind
         /\ UNCHANGED outcome

Leave(kind) ==
    /\ pc' = "cleanup"
    /\ pending' = kind
    /\ UNCHANGED outcome

\* An Exception raised inside the try block: the except clause runs next.
Raise ==
    /\ pc' = "except"
    /\ UNCHANGED <<pending, outcome>>

Goto(next) ==
    /\ pc' = next
    /\ UNCHANGED <<pending, outcome>>

---------------------------------------------------------------------------
Init ==
    /\ gui \in BOOLEAN
    /\ kill_at = ""
    /\ gui_state = ""
    /\ gui_error = ""
    /\ reports = <<>>
    /\ pc = "idle"
    /\ req = NoRequest
    /\ target_filesystem_type = ""
    /\ tree = <<>>
    /\ calls = <<>>
    /\ idx = 0
    /\ copied = <<>>
    /\ CopyFiles_handle = "unstarted"
    /\ stop = FALSE
    /\ file = 0
    /\ temp_directory = FALSE
    /\ pending = ""
    /\ outcome = ""
    /\ second_cleanup = ""
    /\ params = NoParams
    /\ params_result = ""
    /\ source_mounted = FALSE
    /\ replaced = FALSE
    /\ message = ""
    /\ mountpoints = NoMountpoints
    /\ extractions = <<>>

\* flash_device is called: tempfile.mkdtemp
flash_device ==
    /\ pc = "idle"
    /\ \E r \in Requests :
        /\ req' = r
        /\ target_filesystem_type' = r.target_filesystem_type
    /\ temp_directory' = TRUE
    /\ pc' = "is_admin"
    /\ UNCHANGED <<gui, mountpoints, extractions, source_mounted, replaced, message, second_cleanup, params, params_result, kill_at, gui_state, gui_error, reports, tree, calls, idx,
                   copied, CopyFiles_handle, stop, file, pending, outcome>>

\* is_admin: what IsUserAnAdmin answered ("yes", "no"), or False when the call
\* raised
is_admin_returns_True(answer) == TRUE

is_admin_returns(answer) == answer = "yes"

\* if not is_admin(): warning; return 1
is_admin ==
    /\ pc = "is_admin"
    /\ \E answer \in {"yes", "no", "raised"} :
        /\ calls' = Append(calls, Call("is_admin", answer, "flash_device"))
        /\ IF is_admin_returns(answer)
           THEN /\ Goto("mount_source")
                /\ UNCHANGED <<gui_state, gui_error, reports>>
           ELSE /\ SetSink(print_with_color(Sink,
                      "Warning: You are not running UniFlash with administrator privileges!",
                      "yellow"))
                /\ Leave("return_1")
    /\ UNCHANGED <<gui, mountpoints, extractions, source_mounted, replaced, message, second_cleanup, params, params_result, kill_at, req, target_filesystem_type, tree, idx, copied,
                   CopyFiles_handle, stop, file, temp_directory>>

\* What mount_source_filesystem returns for what Mount-DiskImage answered:
\* except subprocess.CalledProcessError: return 1; else return 0
mount_source_filesystem_returns_0(result) == 0

mount_source_filesystem_returns(result) == IF result = "failed" THEN 1 ELSE 0

\* if mount_source_filesystem(...): fatal report; return 1
\* "raised": os.makedirs or starting PowerShell raises; "failed":
\* Mount-DiskImage exits non-zero (CalledProcessError); "ok": it mounted the
\* image.  Mount-DiskImage succeeds only on an image file.
mount_source_filesystem ==
    /\ pc = "mount_source"
    /\ \E result \in {"ok", "failed", "raised"}, t \in Trees :
        /\ result = "ok" => req.source_media = "file"
        /\ result # "ok" => t = <<>>
        /\ calls' = Append(calls, Call("mount_source_filesystem", result, "flash_device"))
        /\ tree' = t
        /\ source_mounted' = (result = "ok")
        /\ LET s1 == print_with_color(Sink, "Mounting source filesystem...", "green")
           IN  CASE result = "raised" -> SetSink(s1) /\ Raise
                 [] result # "raised" /\ mount_source_filesystem_returns(result) # 0 ->
                       /\ SetSink(print_with_color(s1,
                              "Error: Unable to mount source filesystem", "red"))
                       /\ Leave(AfterRed)
                 [] OTHER -> SetSink(s1) /\ Goto("analyze")
    /\ UNCHANGED <<gui, mountpoints, extractions, replaced, message, second_cleanup, params, params_result, kill_at, req, target_filesystem_type, idx, copied,
                   CopyFiles_handle, stop, file, temp_directory>>

\* os.walk over the mounted source: 1 when some file is larger than
\* (2 ** 32) - 1 bytes, else 0
check_fat32_filesize_limitation_ge(t) ==
    IF \E i \in 1..Len(t) : ~SizeGt(FAT32_MAX_FILESIZE, t[i].size) THEN 1 ELSE 0

check_fat32_filesize_limitation(t) ==
    IF \E i \in 1..Len(t) : SizeGt(t[i].size, FAT32_MAX_FILESIZE) THEN 1 ELSE 0

\* if target_filesystem_type == "FAT" and check_fat32_filesize_limitation(...):
\*     target_filesystem_type = "NTFS"
\* The walk is made only for "FAT"; os.path.getsize may raise on a file.
analyze_source ==
    /\ pc = "analyze"
    /\ IF target_filesystem_type = "FAT"
       THEN \E raised \in BOOLEAN :
              /\ raised => tree # <<>>
              /\ LET r == check_fat32_filesize_limitation(tree)
                 IN  /\ calls' = Append(calls, Call("check_fat32_filesize_limitation",
                                   IF raised THEN "raised" ELSE IF r = 1 THEN "1" ELSE "0",
                                   "flash_device"))
                     /\ IF raised
                        THEN /\ Raise
                             /\ UNCHANGED <<gui_state, gui_error, reports,
                                            target_filesystem_type>>
                        ELSE /\ Goto("format")
                             /\ IF r = 1
                                THEN /\ SetSink(print_with_color(Sink,
                                          "Warning: File exceeds the FAT32 4GiB limit, switching to NTFS.",
                                          "yellow"))
                                     /\ target_filesystem_type' = "NTFS"
                                ELSE UNCHANGED <<gui_state, gui_error, reports,
                                                 target_filesystem_type>>
       ELSE /\ Goto("format")
            /\ UNCHANGED <<calls, gui_state, gui_error, reports, target_filesystem_type>>
    /\ UNCHANGED <<gui, mountpoints, extractions, source_mounted, replaced, message, second_cleanup, params, params_result, kill_at, req, tree, idx, copied, CopyFiles_handle, stop,
                   file, temp_directory>>

\* create_target_partition: one diskpart script that creates, formats and
\* labels the partition; subprocess.run without check=True, so a non-zero exit
\* code ("failed") is not noticed.  "raised": diskpart cannot be started.
create_target_partition(caller, filesystem_type, filesystem_label, next) ==
    \E result \in {"ok", "failed", "raised"} :
        /\ result = "failed" => MayFault
        /\ calls' = Append(calls, FsCall("create_target_partition", result, caller,
                                         filesystem_type, filesystem_label))
        /\ SetSink(print_with_color(Sink, "Creating target partition...", "green"))
        /\ IF result = "raised" THEN Raise ELSE Goto(next)

\* format_target_device: Get-Partition; "found": the output lists partitions;
\* "none": it says "No partitions" or is empty; "error": PowerShell exits
\* non-zero with nothing on stdout, which reads as empty; "raised": PowerShell
\* cannot be started.
format_target_device ==
    /\ pc = "format"
    /\ \E result \in {"found", "none", "error", "raised"} :
        /\ result = "error" => MayFault
        /\ calls' = Append(calls, FsCall("format_target_device", result, "flash_device",
                                         target_filesystem_type, ""))
        /\ LET s1 == print_with_color(Sink,
                         "Checking and formatting if no partition exists...", "green")
           IN  CASE result = "raised" -> SetSink(s1) /\ Raise
                 [] result = "found" ->
                       /\ SetSink(print_with_color(s1,
                              "Target device already has a partition.", "green"))
                       /\ Goto("wipe")
                 [] OTHER ->
                       /\ SetSink(print_with_color(s1,
                              "No partitions found, creating a new partition and formatting...",
                              "green"))
                       /\ Goto("format_create")
    /\ UNCHANGED <<gui, mountpoints, extractions, source_mounted, replaced, message, second_cleanup, params, params_result, kill_at, req, target_filesystem_type, tree, idx, copied,
                   CopyFiles_handle, stop, file, temp_directory>>

\* format_target_device, no partition found:
\* create_target_partition(target_device, filesystem_type, DEFAULT_NEW_FS_LABEL)
format_target_device_create ==
    /\ pc = "format_create"
    /\ create_target_partition("format_target_device", target_filesystem_type,
                               DEFAULT_NEW_FS_LABEL, "wipe")
    /\ UNCHANGED <<gui, mountpoints, extractions, source_mounted, replaced, message, second_cleanup, params, params_result, kill_at, req, target_filesystem_type, tree, idx, copied,
                   CopyFiles_handle, stop, file, temp_directory>>

\* A device step that is one diskpart run without check=True.
DiskpartStep(op, text, next) ==
    \E result \in {"ok", "failed", "raised"} :
        /\ result = "failed" => MayFault
        /\ calls' = Append(calls, Call(op, result, "flash_device"))
        /\ SetSink(print_with_color(Sink, text, "green"))
        /\ IF result = "raised" THEN Raise ELSE Goto(next)

wipe_existing_partition_table_and_filesystem_signatures ==
    /\ pc = "wipe"
    /\ DiskpartStep("wipe_existing_partition_table_and_filesystem_signatures",
                    "Wiping existing partition table", "table")
    /\ UNCHANGED <<gui, mountpoints, extractions, source_mounted, replaced, message, second_cleanup, params, params_result, kill_at, req, target_filesystem_type, tree, idx, copied,
                   CopyFiles_handle, stop, file, temp_directory>>

create_target_partition_table_then_mount ==
    /\ pc = "table"
    /\ DiskpartStep("create_target_partition_table",
                    "Creating new partition table...", "mount_target")
    /\ UNCHANGED <<gui, mountpoints, extractions, source_mounted, replaced, message, second_cleanup, params, params_result, kill_at, req, target_filesystem_type, tree, idx, copied,
                   CopyFiles_handle, stop, file, temp_directory>>

create_target_partition_table ==
    /\ pc = "table"
    /\ DiskpartStep("create_target_partition_table",
                    "Creating new partition table...", "partition")
    /\ UNCHANGED <<gui, mountpoints, extractions, source_mounted, replaced, message, second_cleanup, params, params_result, kill_at, req, target_filesystem_type, tree, idx, copied,
                   CopyFiles_handle, stop, file, temp_directory>>

\* flash_device: create_target_partition(target_device, target_filesystem_type,
\*                                       filesystem_label)
create_data_partition ==
    /\ pc = "partition"
    /\ create_target_partition("flash_device", target_filesystem_type,
                               req.filesystem_label, "mount_target")
    /\ UNCHANGED <<gui, mountpoints, extractions, source_mounted, replaced, message, second_cleanup, params, params_result, kill_at, req, target_filesystem_type, tree, idx, copied,
                   CopyFiles_handle, stop, file, temp_directory>>

\* mount_target_filesystem prints and returns 0
mount_target_filesystem_result == 0

\* if mount_target_filesystem(...): fatal report; return 1
mount_target_filesystem ==
    /\ pc = "mount_target"
    /\ LET result == mount_target_filesystem_result
           s1 == print_with_color(Sink, "Mounting target filesystem...", "green")
       IN  /\ calls' = Append(calls, Call("mount_target_filesystem",
                                          IF result = 0 THEN "ok" ELSE "failed",
                                          "flash_device"))
           /\ IF result # 0
              THEN /\ SetSink(print_with_color(s1,
                          "Error: Unable to mount target filesystem", "red"))
                   /\ Leave(AfterRed)
              ELSE /\ SetSink(s1)
                   /\ Goto("copy")
    /\ UNCHANGED <<gui, mountpoints, extractions, source_mounted, replaced, message, second_cleanup, params, params_result, kill_at, req, target_filesystem_type, tree, idx, copied,
                   CopyFiles_handle, stop, file, temp_directory>>

\* copy_filesystem_files, up to the loop: check_kill_signal(), then the
\* progress thread is created and started.
copy_filesystem_files ==
    /\ pc = "copy"
    /\ IF check_kill_signal
       THEN /\ calls' = Append(calls, Call("copy_filesystem_files", "killed", "flash_device"))
            /\ Leave("SystemExit")
            /\ UNCHANGED <<CopyFiles_handle, stop, file, idx>>
       ELSE /\ calls' = Append(calls, Call("copy_filesystem_files", "started", "flash_device"))
            /\ CopyFiles_handle' = "running"
            /\ stop' = FALSE
            /\ file' = 0
            /\ idx' = 1
            /\ Goto("copy_loop")
    /\ UNCHANGED <<gui, mountpoints, extractions, source_mounted, replaced, message, second_cleanup, params, params_result, kill_at, gui_state, gui_error, reports, req,
                   target_filesystem_type, tree, copied, temp_directory>>

\* One iteration of the loop: CopyFiles_handle.file = path; shutil.copy2.
\* Nothing creates a directory under the target, so on a file that lies in a
\* subdirectory copy2 raises FileNotFoundError ("no_directory"); on a file of
\* the root it may raise for an I/O error ("raised").
copy_file ==
    /\ pc = "copy_loop"
    /\ idx <= Len(tree)
    /\ file' = idx
    /\ \E result \in {"ok", "raised", "no_directory"} :
        /\ tree[idx].nested <=> result = "no_directory"
        /\ calls' = Append(calls, Call("copy2", result, "copy_filesystem_files"))
        /\ IF result = "ok"
           THEN /\ copied' = Append(copied, idx)
                /\ idx' = idx + 1
                /\ Goto("copy_loop")
           ELSE /\ UNCHANGED <<copied, idx>>
                /\ Raise
    /\ UNCHANGED <<gui, mountpoints, extractions, source_mounted, replaced, message, second_cleanup, params, params_result, kill_at, gui_state, gui_error, reports, req,
                   target_filesystem_type, tree, CopyFiles_handle, stop,
                   temp_directory>>

\* flash_device, after the copy: if target_filesystem_type == "NTFS":
uefi_ntfs_support_always(filesystem_type) == TRUE

uefi_ntfs_support(filesystem_type) == filesystem_type = "NTFS"

\* After the loop: CopyFiles_handle.stop = True; copy_filesystem_files returns.
\* Then, in flash_device: if target_filesystem_type == "NTFS": ...
copy_done ==
    /\ pc = "copy_loop"
    /\ idx > Len(tree)
    /\ stop' = TRUE
    /\ IF uefi_ntfs_support(target_filesystem_type)
       THEN Goto("uefi_create")
       ELSE Leave("normal")
    /\ UNCHANGED <<gui, mountpoints, extractions, source_mounted, replaced, message, second_cleanup, params, params_result, kill_at, gui_state, gui_error, reports, req,
                   target_filesystem_type, tree, calls, idx, copied,
                   CopyFiles_handle, file, temp_directory>>

\* create_uefi_ntfs_support_partition only reports
create_uefi_ntfs_support_partition ==
    /\ pc = "uefi_create"
    /\ calls' = Append(calls, Call("create_uefi_ntfs_support_partition", "ok", "flash_device"))
    /\ SetSink(print_with_color(Sink, "Creating UEFI:NTFS support partition...", "green"))
    /\ Goto("uefi_install")
    /\ UNCHANGED <<gui, mountpoints, extractions, source_mounted, replaced, message, second_cleanup, params, params_result, kill_at, req, target_filesystem_type, tree, idx, copied,
                   CopyFiles_handle, stop, file, temp_directory>>

\* install_uefi_ntfs_support_partition begins with check_kill_signal()
install_uefi_ntfs_support_partition ==
    /\ pc = "uefi_install"
    /\ IF check_kill_signal
       THEN /\ calls' = Append(calls, Call("install_uefi_ntfs_support_partition",
                                          "killed", "flash_device"))
            /\ Leave("SystemExit")
       ELSE /\ calls' = Append(calls, Call("install_uefi_ntfs_support_partition",
                                          "started", "flash_device"))
            /\ Goto("uefi_fetch")
    /\ UNCHANGED <<gui, mountpoints, extractions, source_mounted, replaced, message, second_cleanup, params, params_result, kill_at, gui_state, gui_error, reports, req,
                   target_filesystem_type, tree, idx, copied, CopyFiles_handle,
                   stop, file, temp_directory>>

\* except (ContentTooShortError, HTTPError, URLError): the network failures
\* ("failed") are caught
urlretrieve_caught_none(result) == FALSE

urlretrieve_caught(result) == result = "failed"

\* urllib.request.urlretrieve: "failed" is ContentTooShortError, HTTPError or
\* URLError, which is caught: warning; return 1 (flash_device ignores the
\* value).  "raised" is any other exception.
urlretrieve ==
    /\ pc = "uefi_fetch"
    /\ \E result \in {"ok", "failed", "raised"} :
        /\ calls' = Append(calls, Call("urlretrieve", result,
                                       "install_uefi_ntfs_support_partition"))
        /\ CASE result = "ok" ->
                   /\ Goto("uefi_move")
                   /\ UNCHANGED <<gui_state, gui_error, reports>>
             [] result # "ok" /\ urlretrieve_caught(result) ->
                   /\ SetSink(print_with_color(Sink,
                          "Warning: Unable to download UEFI:NTFS image.", "yellow"))
                   /\ Leave("normal")
             [] OTHER ->
                   /\ Raise
                   /\ UNCHANGED <<gui_state, gui_error, reports>>
    /\ UNCHANGED <<gui, mountpoints, extractions, source_mounted, replaced, message, second_cleanup, params, params_result, kill_at, req, target_filesystem_type, tree, idx, copied,
                   CopyFiles_handle, stop, file, temp_directory>>

\* shutil.move(fileName, download_directory + "/" + fileName)
move_image ==
    /\ pc = "uefi_move"
    /\ \E result \in {"ok", "raised"} :
        /\ calls' = Append(calls, Call("shutil.move", result,
                                       "install_uefi_ntfs_support_partition"))
        /\ IF result = "ok" THEN Goto("uefi_copy") ELSE Raise
    /\ UNCHANGED <<gui, mountpoints, extractions, source_mounted, replaced, message, second_cleanup, params, params_result, kill_at, gui_state, gui_error, reports, req,
                   target_filesystem_type, tree, idx, copied, CopyFiles_handle,
                   stop, file, temp_directory>>

\* shutil.copy2(download_directory + "/uefi-ntfs.img", uefi_ntfs_partition);
\* the function returns and the try block ends.
copy_image ==
    /\ pc = "uefi_copy"
    /\ \E result \in {"ok", "raised"} :
        /\ calls' = Append(calls, Call("shutil.copy2", result,
                                       "install_uefi_ntfs_support_partition"))
        /\ IF result = "ok" THEN Leave("normal") ELSE Raise
    /\ UNCHANGED <<gui, mountpoints, extractions, source_mounted, replaced, message, second_cleanup, params, params_result, kill_at, gui_state, gui_error, reports, req,
                   target_filesystem_type, tree, idx, copied, CopyFiles_handle,
                   stop, file, temp_directory>>

\* except Exception as error: print_with_color(str(error), "red"); return 1
except_Exception ==
    /\ pc = "except"
    /\ SetSink(print_with_color(Sink, "str(error)", "red"))
    /\ Leave(AfterRed)
    /\ UNCHANGED <<gui, mountpoints, extractions, source_mounted, replaced, message, second_cleanup, params, params_result, kill_at, req, target_filesystem_type, tree, calls, idx,
                   copied, CopyFiles_handle, stop, file, temp_directory>>

\* CopyFiles_handle.is_alive()
is_alive == CopyFiles_handle = "running"

\* shutil.rmtree(temp_directory): whether the directory exists afterwards.
\* "ok": the tree was removed; "raised": rmtree raised, on a directory that
\* does not exist (FileNotFoundError) or on one it could not remove.
rmtree_keeps(exists, result) == exists

rmtree(exists, result) == IF result = "ok" THEN FALSE ELSE exists

\* finally: cleanup(...): the stop flag is set if the progress thread is
\* alive; shutil.rmtree(temp_directory) may raise, and the exception then
\* leaves flash_device in place of the pending return or exit.
cleanup ==
    /\ pc = "cleanup"
    /\ stop' = IF is_alive THEN TRUE ELSE stop
    /\ \E result \in {"ok", "raised"} :
        /\ result = "ok" => temp_directory
        /\ calls' = Append(calls, Call("cleanup", result, "flash_device"))
        /\ temp_directory' = rmtree(temp_directory, result)
        /\ IF result = "ok"
           THEN Goto("final_report")
           ELSE /\ pc' = "done"
                /\ outcome' = "Exception"
                /\ UNCHANGED pending
    /\ UNCHANGED <<gui, mountpoints, extractions, source_mounted, replaced, message, second_cleanup, params, params_result, kill_at, gui_state, gui_error, reports, req,
                   target_filesystem_type, tree, idx, copied, CopyFiles_handle,
                   file>>

\* finally, last statement: the status report; then the pending return or
\* exit takes effect.  Falling off the end returns None.
final_report ==
    /\ pc = "final_report"
    /\ SetSink(print_with_color(Sink, "Flashing completed successfully!", "green"))
    /\ outcome' = CASE pending = "return_1" -> "returned_1"
                    [] pending = "SystemExit" -> "SystemExit"
                    [] OTHER -> "returned_None"
    /\ pc' = "done"
    /\ UNCHANGED <<gui, mountpoints, extractions, source_mounted, replaced, message, second_cleanup, params, params_result, kill_at, req, target_filesystem_type, tree, calls, idx,
                   copied, CopyFiles_handle, stop, file, temp_directory, pending>>

---------------------------------------------------------------------------
(* The other threads *)

\* ReportCopyProgress.run: while not self.stop: time.sleep(0.05)
ReportCopyProgress_run ==
    /\ CopyFiles_handle = "running"
    /\ CopyFiles_handle' = IF stop THEN "terminated" ELSE "running"
    /\ UNCHANGED <<gui, mountpoints, extractions, source_mounted, replaced, message, second_cleanup, params, params_result, kill_at, gui_state, gui_error, reports, pc, req,
                   target_filesystem_type, tree, calls, idx, copied, stop, file,
                   temp_directory, pending, outcome>>

\* The stage of the pipeline a position belongs to.
Stage(p) ==
    CASE p = "copy_loop" -> "copy_loop"
      [] p \in {"uefi_create", "uefi_install", "uefi_fetch", "uefi_move", "uefi_copy",
                "except", "cleanup", "final_report"} -> "after_copy"
      [] OTHER -> "before_copy"

\* UniFlash_handler.is_alive(): run has not ended, by its return or by an
\* exception that it does not catch
handler_is_alive == ~(outcome = "Exception" \/ second_cleanup # "")

\* on_install, after its loop: "Installation succeeded!" if uniflash.error is
\* "", else "Installation failed!"
on_install_message(error) == IF error = "" THEN "succeeded" ELSE "failed"

\* MainPanel.on_install, while the handler thread is alive: the user confirms
\* the cancellation, uniflash.kill = True; break; the dialog is destroyed and
\* the message box is shown.
on_install_cancel ==
    /\ gui
    /\ kill_at = ""
    /\ message = ""
    /\ pc \notin {"idle", "done"}
    /\ kill_at' = Stage(pc)
    /\ message' = on_install_message(gui_error)
    /\ UNCHANGED <<gui, mountpoints, extractions, source_mounted, replaced, second_cleanup, params, params_result, gui_state, gui_error, reports, pc, req,
                   target_filesystem_type, tree, calls, idx, copied,
                   CopyFiles_handle, stop, file, temp_directory, pending, outcome>>

\* UniFlash_handler.run, after the core has finished (it returned, or left by
\* the SystemExit that run catches): core.cleanup(...) is called again with
\* the same arguments.  rmtree raises on a directory that is not there.
UniFlash_handler_cleanup ==
    /\ gui
    /\ pc = "done"
    /\ outcome # "Exception"
    /\ second_cleanup = ""
    /\ stop' = IF is_alive THEN TRUE ELSE stop
    /\ \E result \in {"ok", "raised"} :
        /\ result = "ok" => temp_directory
        /\ second_cleanup' = result
        /\ temp_directory' = rmtree(temp_directory, result)
    /\ UNCHANGED <<gui, mountpoints, extractions, source_mounted, replaced, message, kill_at, gui_state, gui_error, reports, pc, req,
                   target_filesystem_type, tree, calls, idx, copied,
                   CopyFiles_handle, file, pending, outcome, params,
                   params_result>>

\* MainPanel.on_install, its loop left because the handler thread is no
\* longer alive: the message box is shown.
on_install_result ==
    /\ gui
    /\ message = ""
    /\ ~handler_is_alive
    /\ message' = on_install_message(gui_error)
    /\ UNCHANGED <<gui, mountpoints, extractions, kill_at, gui_state, gui_error, reports, pc, req,
                   target_filesystem_type, tree, calls, idx, copied,
                   CopyFiles_handle, stop, file, temp_directory, pending, outcome,
                   second_cleanup, params, params_result, source_mounted, replaced>>

\* MainPanel.on_install once more, after it has returned and while the
\* handler thread of this session is still alive:
\* UniFlash_handler.__init__ sets core.gui = self, a new handler whose state,
\* error and kill are the class defaults.
UniFlash_handler_init ==
    /\ gui
    /\ message # ""
    /\ handler_is_alive
    /\ ~replaced
    /\ replaced' = TRUE
    /\ gui_state' = ""
    /\ gui_error' = ""
    /\ UNCHANGED <<gui, mountpoints, extractions, kill_at, reports, pc, req, target_filesystem_type, tree,
                   calls, idx, copied, CopyFiles_handle, stop, file,
                   temp_directory, pending, outcome, second_cleanup, params,
                   params_result, source_mounted, message>>

---------------------------------------------------------------------------
Next ==
    \/ flash_device
    \/ is_admin
    \/ mount_source_filesystem
    \/ analyze_source
    \/ format_target_device
    \/ format_target_device_create
    \/ wipe_existing_partition_table_and_filesystem_signatures
    \/ create_target_partition_table
    \/ create_data_partition
    \/ mount_target_filesystem
    \/ copy_filesystem_files
    \/ copy_file
    \/ copy_done
    \/ create_uefi_ntfs_support_partition
    \/ install_uefi_ntfs_support_partition
    \/ urlretrieve
    \/ move_image
    \/ copy_image
    \/ except_Exception
    \/ cleanup
    \/ final_report
    \/ ReportCopyProgress_run
    \/ on_install_cancel
    \/ UniFlash_handler_cleanup
    \/ on_install_result

\* One session: no other handler is constructed while it runs.
Spec == Init /\ [][Next]_vars

\* One session, during which Install may be clicked once more.
NextSecondInstall ==
    \/ Next
    \/ UniFlash_handler_init

SpecSecondInstall == Init /\ [][NextSecondInstall]_vars

---------------------------------------------------------------------------
(* Vocabulary of the properties *)

Has(op) == \E i \in 1..Len(calls) : calls[i].op = op

HasResult(op, result) ==
    \E i \in 1..Len(calls) : calls[i].op = op /\ calls[i].result = result

\* flash_device has been left
Ended == pc = "done"

\* check_kill_signal raised in this run
Killed == \E i \in 1..Len(calls) : calls[i].result = "killed"

\* shutil.rmtree raised inside cleanup
CleanupRaised == HasResult("cleanup", "raised")

\* Terminal states of a run
Success == outcome = "returned_None"

Cancelled == outcome = "SystemExit" /\ Killed

Failed ==
    \/ outcome \in {"returned_1", "Exception"}
    \/ outcome = "SystemExit" /\ ~Killed

\* The operations that modify the target device
DestructiveOps == {"wipe_existing_partition_table_and_filesystem_signatures",
                   "create_target_partition_table", "create_target_partition"}

DeviceOps == DestructiveOps \cup {"format_target_device"}

PostProcessingOps == {"create_uefi_ntfs_support_partition",
                      "install_uefi_ntfs_support_partition", "urlretrieve",
                      "shutil.move", "shutil.copy2"}

\* The place of an operation in the order of the stages
StageRank ==
    [op \in {"is_admin", "mount_source_filesystem", "check_fat32_filesize_limitation",
             "format_target_device",
             "wipe_existing_partition_table_and_filesystem_signatures",
             "create_target_partition_table", "mount_target_filesystem",
             "copy_filesystem_files", "copy2", "cleanup"} \cup PostProcessingOps |->
        CASE op = "is_admin" -> 0
          [] op = "mount_source_filesystem" -> 1
          [] op = "check_fat32_filesize_limitation" -> 2
          [] op = "format_target_device" -> 3
          [] op = "wipe_existing_partition_table_and_filesystem_signatures" -> 4
          [] op = "create_target_partition_table" -> 5
          [] op = "mount_target_filesystem" -> 7
          [] op \in {"copy_filesystem_files", "copy2"} -> 8
          [] op \in PostProcessingOps -> 9
          [] op = "cleanup" -> 10]

\* create_target_partition belongs to the stage of its caller
Rank(c) ==
    IF c.op = "create_target_partition"
    THEN IF c.caller = "flash_device" THEN 6 ELSE 3
    ELSE StageRank[c.op]

\* The stages of the operations called so far, in the order of the calls
Ranks == [i \in 1..Len(calls) |-> Rank(calls[i])]

\* Some file of the source tree is larger than (2 ** 32) - 1 bytes
BigFile == \E i \in 1..Len(tree) : SizeGt(tree[i].size, FAT32_MAX_FILESIZE)

ReportCount(color) == Cardinality({i \in 1..Len(reports) : reports[i][2] = color})

---------------------------------------------------------------------------
(* C1 *)

\* C1: cleanup is invoked exactly once in every run of flash_device, before
\* control leaves it: never twice, and once whenever the run has ended, by
\* return, by an exception or by SystemExit.
C1_CleanupExactlyOnce ==
    /\ Count(calls, "cleanup") <= 1
    /\ outcome # "" => Count(calls, "cleanup") = 1
    /\ Ended <=> outcome # ""

\* A run left by the SystemExit of the kill check, after its one cleanup.
C1_Witness ==
    /\ Ended
    /\ Cancelled
    /\ Count(calls, "cleanup") = 1

---------------------------------------------------------------------------
(* C2 *)

\* The formatting steps: format_target_device and create_target_partition
\* receive the filesystem type.
FormattingIssued ==
    \E i \in 1..Len(calls) : calls[i].op \in {"format_target_device", "create_target_partition"}

C2_TypePassed ==
    \A i \in 1..Len(calls) :
        calls[i].op \in {"format_target_device", "create_target_partition"} =>
            calls[i].fs = IF BigFile THEN "NTFS" ELSE req.target_filesystem_type

\* A step that changes the type is the one escalation from the requested
\* "FAT" to "NTFS", made while no formatting step has been issued.
C2_TypeChange ==
    (pc # "idle" /\ target_filesystem_type' # target_filesystem_type) =>
        /\ target_filesystem_type = req.target_filesystem_type
        /\ target_filesystem_type = "FAT"
        /\ target_filesystem_type' = "NTFS"
        /\ ~FormattingIssued

\* C2: if some source file is larger than 2^32 - 1 bytes the type passed to
\* the formatting steps is NTFS, whatever was requested; if none is, it is the
\* requested type.  The type changes at most once, and never after the first
\* formatting step.
C2_ResolvedFilesystemType == [](C2_TypePassed) /\ [][C2_TypeChange]_vars

\* FAT was requested, a file is larger than the limit, and the data partition
\* has been created as NTFS.
C2_Witness ==
    /\ req.target_filesystem_type = "FAT"
    /\ BigFile
    /\ \E i \in 1..Len(calls) :
          /\ calls[i].op = "create_target_partition"
          /\ calls[i].caller = "flash_device"
          /\ calls[i].fs = "NTFS"

---------------------------------------------------------------------------
(* C3 *)

\* Mounting the source failed: Mount-DiskImage failed or the function raised
SourceMountFailed ==
    \E i \in 1..Len(calls) :
        calls[i].op = "mount_source_filesystem" /\ calls[i].result # "ok"

\* C3: when mounting the source fails, no destructive device operation is
\* invoked in that run (format_target_device, wipe, partition table and
\* partition creation are called zero times) and the run ends as a failure.
C3_SourceMountFailure ==
    SourceMountFailed =>
        /\ \A i \in 1..Len(calls) : calls[i].op \notin DeviceOps
        /\ Ended => Failed

\* A run whose Mount-DiskImage failed and that has ended.
C3_Witness ==
    /\ HasResult("mount_source_filesystem", "failed")
    /\ Ended

---------------------------------------------------------------------------
(* C4 *)

\* A device modification step failed: PowerShell or diskpart exited non-zero
\* ("error", "failed") or could not be run ("raised").
DeviceStepFailed(i) ==
    /\ calls[i].op \in DeviceOps
    /\ calls[i].result \in {"error", "failed", "raised"}

\* C4: if a device modification step fails, no operation of a later stage
\* follows it except cleanup (no later device step, no target mount, no copy,
\* no post-processing) and the run ends as a failure.
C4_DeviceFailureIsFatal ==
    \A i \in 1..Len(calls) :
        DeviceStepFailed(i) =>
            /\ \A j \in (i + 1)..Len(calls) :
                  Rank(calls[j]) = Rank(calls[i]) \/ calls[j].op = "cleanup"
            /\ Ended => Failed

---------------------------------------------------------------------------
(* C5 *)

\* The progress thread has been told to stop, or was never started
ReporterStopped == CopyFiles_handle = "unstarted" \/ stop

\* C5: if cancellation is requested while the pipeline is in the copying
\* stage (inside the copy loop, the progress thread started), no post-processing step is attempted and the run ends Cancelled, not
\* Success, with the progress reporter stopped.  (Runs in which cleanup itself
\* raises are left aside: they are C22's.)
C5_CancelDuringCopy ==
    kill_at = "copy_loop" =>
        /\ \A i \in 1..Len(calls) : calls[i].op \notin PostProcessingOps
        /\ (Ended /\ ~CleanupRaised) => (Cancelled /\ ReporterStopped)

---------------------------------------------------------------------------
(* C6 *)

\* Every stage up to and including the copy succeeded, the resolved type is
\* NTFS and the fetch of the boot-support image failed.
FetchFailedAfterCleanCopy ==
    /\ HasResult("urlretrieve", "failed")
    /\ target_filesystem_type = "NTFS"
    /\ \A i \in 1..Len(calls) :
          calls[i].op \in DeviceOps \cup {"mount_source_filesystem", "mount_target_filesystem",
                                          "copy2", "check_fat32_filesize_limitation"}
              => calls[i].result \in {"ok", "found", "none", "0", "1"}

BootSupportWarnings ==
    Cardinality({i \in 1..Len(reports) :
                    reports[i] = <<"Warning: Unable to download UEFI:NTFS image.", "yellow">>})

Escalated == target_filesystem_type # req.target_filesystem_type

---------------------------------------------------------------------------
(* C7 *)

\* Moving the fetched image into the scratch directory, or copying it onto
\* the auxiliary partition, failed.
ImageCopyFailed ==
    HasResult("shutil.move", "raised") \/ HasResult("shutil.copy2", "raised")

\* C7: a failure to copy the fetched boot-support image is a warning, not a
\* fatal error: no fatal report is made and the run still ends as Success.
\* (Runs in which cleanup itself raises are left aside: they are C22's.)
C7_ImageCopyFailureIsWarning ==
    ImageCopyFailed =>
        /\ pc \in {"cleanup", "final_report", "done"} => ReportCount("red") = 0
        /\ (Ended /\ ~CleanupRaised) => Success

---------------------------------------------------------------------------
(* C8 *)

\* mount_target_filesystem returns 0 on every call, so the branch of
\* flash_device that handles a target mount failure is never taken: no run
\* holds a failed target mount.
TargetMountNeverFails == ~HasResult("mount_target_filesystem", "failed")

---------------------------------------------------------------------------
(* C9 *)

UpperCase == {"A", "B", "C", "D", "E", "F", "G", "H", "I", "J", "K", "L", "M",
              "N", "O", "P", "Q", "R", "S", "T", "U", "V", "W", "X", "Y", "Z"}

\* re.match(r"^[A-Z]:$", target_media)
MatchesDriveLetter(t) ==
    /\ Len(t) = 2
    /\ t[1] \in UpperCase
    /\ t[2] = ":"

\* re.match(r"^[A-Z]:\\", target_media)
MatchesDrivePath(t) ==
    /\ Len(t) >= 3
    /\ t[1] \in UpperCase
    /\ t[2] = ":"
    /\ t[3] = "\\"

\* check_runtime_parameters, without its reports
check_runtime_parameters(install_mode, source_media, target_media) ==
    IF source_media # "file" THEN 1
    ELSE IF ~MatchesDrivePath(target_media) THEN 1
    ELSE IF install_mode = "device" /\ ~MatchesDriveLetter(target_media) THEN 1
    ELSE IF install_mode = "partition" /\ ~MatchesDrivePath(target_media) THEN 1
    ELSE 0

\* The request is invalid: the source is not a regular file, or the target
\* does not have the syntax of its install mode.
InvalidInput(r) ==
    \/ r.source_media # "file"
    \/ r.install_mode = "device" /\ ~MatchesDriveLetter(r.target_device)
    \/ r.install_mode = "partition" /\ ~MatchesDrivePath(r.target_device)

\* C9: a flash request with invalid input is aborted before any destructive
\* device operation, and its scratch directory is removed.  (Runs in which
\* cleanup itself raises are left aside: they are C22's.)
C9_InvalidInputAborts ==
    (pc # "idle" /\ InvalidInput(req)) =>
        /\ \A i \in 1..Len(calls) : calls[i].op \notin DestructiveOps
        /\ (Ended /\ ~CleanupRaised) => ~temp_directory

---------------------------------------------------------------------------
(* C10 *)

\* C10: the stages occur in the fixed order only, each after the one before
\* it: an operation never follows one of a later stage; the stages that are a
\* single call are called once; a stage from detect-or-create to
\* post-processing is entered only when every stage before it has been (the
\* analysis is made for a FAT request only), so the target is mounted only
\* after the data partition was created; and nothing is called after cleanup.
C10_StageOrder ==
    LET ranks == Ranks
        entered == {ranks[i] : i \in 1..Len(calls)}
    IN  /\ \A i \in 1..(Len(calls) - 1) :
              /\ ranks[i] <= ranks[i + 1]
              /\ ranks[i] = ranks[i + 1] => ranks[i] \in {3, 8, 9}
              /\ ranks[i] # 10
        /\ \A r \in entered \cap 3..9 :
              /\ (3..(r - 1)) \cup {1} \subseteq entered
              /\ req.target_filesystem_type = "FAT" => 2 \in entered
        /\ 7 \in entered => 6 \in entered

\* A run that went through every stage, post-processing included, and ended.
C10_Witness ==
    /\ Ended
    /\ {Ranks[i] : i \in 1..Len(calls)} = 0..10

---------------------------------------------------------------------------
(* C11 *)

\* The calls that begin a destructive stage: the wipe, the partition table,
\* the partition creation and format, the copy, and the post-processing.
StageStarts == DestructiveOps \cup {"copy_filesystem_files",
                                    "create_uefi_ntfs_support_partition",
                                    "install_uefi_ntfs_support_partition"}

\* A step of the pipeline made while the kill flag is set begins no
\* destructive stage: a call that would begin one is stopped by the kill
\* check.
C11_Step ==
    (check_kill_signal /\ Len(calls') = Len(calls) + 1) =>
        LET c == calls'[Len(calls')]
        IN  c.op \in StageStarts => c.result = "killed"

\* C11: the cancellation flag is checked at the start of every stage: once
\* cancellation has been requested, no destructive stage (wipe, partition
\* table, partition creation and format, copy, post-processing) is started.
C11_KillCheckedAtEveryStage == [][C11_Step]_vars

---------------------------------------------------------------------------
(* C12 *)

\* C12: cleanup is idempotent: the second call, made with the same arguments
\* after flash_device's own cleanup has run, raises no error, and the scratch
\* directory stays removed.
C12_CleanupIdempotent ==
    second_cleanup # "" =>
        /\ second_cleanup = "ok"
        /\ ~temp_directory

---------------------------------------------------------------------------
(* C13 *)

\* The copy stage has completed: copy_filesystem_files started the progress
\* thread, went through the whole walk and returned.
CopyCompleted ==
    /\ HasResult("copy_filesystem_files", "started")
    /\ idx > Len(tree)
    /\ pc # "copy_loop"

\* C13: after the copy stage completes, every file of the source tree, the
\* files in subdirectories included, has been copied to the target; and no
\* copy fails for the one reason that the file lies in a subdirectory.
C13_NestedFilesCopied ==
    /\ CopyCompleted => {copied[i] : i \in 1..Len(copied)} = 1..Len(tree)
    /\ ~HasResult("copy2", "no_directory")

---------------------------------------------------------------------------
(* C14 *)

\* C14: what flash_device hands to its caller is 0 when the run succeeded
\* (the try block ended normally, with or without warnings) and 1 when a
\* fatal error was reported, with a handler attached and without one.  (Runs
\* in which cleanup itself raises are left aside: they are C22's.)
C14_ResultCode ==
    (Ended /\ ~CleanupRaised) =>
        /\ pending = "normal" => outcome = "returned_0"
        /\ ReportCount("red") > 0 => outcome = "returned_1"

---------------------------------------------------------------------------
(* C15 *)

\* Longest target string given to check_runtime_parameters.
MaxTargetLen == 3

TargetChars == {"X", "x", ":", "\\"}

TargetStrings == UNION {[1..n -> TargetChars] : n \in 0..MaxTargetLen}

Params == [install_mode : {"device", "partition"}, source_media : SourceMedia,
           target_media : TargetStrings]

\* The report check_runtime_parameters makes before it returns 1
check_runtime_parameters_error(install_mode, source_media, target_media) ==
    IF source_media # "file"
    THEN "Error: Source media not found or not a regular file!"
    ELSE IF ~MatchesDrivePath(target_media)
    THEN "Error: Target media is not a valid drive letter!"
    ELSE IF install_mode = "device" /\ ~MatchesDriveLetter(target_media)
    THEN "Error: Target media is not an entire storage device!"
    ELSE "Error: Target media is not a partition!"

\* One call of check_runtime_parameters.  Each rejection is reported in red
\* first: with a handler attached print_with_color leaves by sys.exit() and
\* the "return 1" is not reached.
check_runtime_parameters_call ==
    /\ pc = "idle"
    /\ params_result = ""
    /\ \E p \in Params :
        /\ params' = p
        /\ IF check_runtime_parameters(p.install_mode, p.source_media, p.target_media) = 1
           THEN /\ SetSink(print_with_color(Sink,
                       check_runtime_parameters_error(p.install_mode, p.source_media,
                                                      p.target_media), "red"))
                /\ params_result' = IF gui THEN "SystemExit" ELSE "1"
           ELSE /\ params_result' = "0"
                /\ UNCHANGED <<gui_state, gui_error, reports>>
    /\ UNCHANGED <<gui, mountpoints, extractions, source_mounted, replaced, message, kill_at, pc, req, target_filesystem_type, tree, calls, idx,
                   copied, CopyFiles_handle, stop, file, temp_directory, pending,
                   outcome, second_cleanup>>

NextParams == check_runtime_parameters_call

SpecParams == Init /\ [][NextParams]_vars

\* The source is a regular file and the target has the syntax of the install
\* mode: a bare drive letter for a whole device, a drive path for a partition.
ValidParams(p) ==
    /\ p.source_media = "file"
    /\ p.install_mode = "device" => MatchesDriveLetter(p.target_media)
    /\ p.install_mode = "partition" => MatchesDrivePath(p.target_media)

\* C15: check_runtime_parameters returns 0 for exactly the requests whose
\* source is a regular file and whose target has the syntax of the install
\* mode (so a whole-device request for "X:" with a regular source is
\* accepted), and it rejects a request with a non-regular source with 1.
C15_AcceptsExactlyValid ==
    params_result # "" =>
        /\ params_result = "0" <=> ValidParams(params)
        /\ params.source_media # "file" => params_result = "1"

---------------------------------------------------------------------------
(* C16 *)

\* The removals of the scratch directory that succeeded
Removals ==
    Cardinality({i \in 1..Len(calls) : calls[i].op = "cleanup" /\ calls[i].result = "ok"})
        + (IF second_cleanup = "ok" THEN 1 ELSE 0)

\* flash_device is running and its cleanup has not been called
BeforeCleanup == pc \notin {"idle", "final_report", "done"}

---------------------------------------------------------------------------
(* C17 *)

\* C17: the progress thread is not running at the moment flash_device is
\* left: cleanup has signalled it and waited for it to stop.
C17_ReporterNotRunningAtReturn == Ended => CopyFiles_handle # "running"

---------------------------------------------------------------------------
(* C18 *)

\* copy_filesystem_files started the progress thread and has been left, by
\* its return or by an exception, and cleanup has not been called yet.
CopierLeft ==
    /\ HasResult("copy_filesystem_files", "started")
    /\ pc \notin {"copy_loop", "final_report", "done"}

\* C18: whenever copy_filesystem_files has been left after it started the
\* progress thread, by normal completion or by an exception on some file, the
\* copier has set the stop flag, before any cleanup call.
C18_StopSetWhenCopierLeft == CopierLeft => stop

---------------------------------------------------------------------------
(* C19 *)

\* A step made inside the copy loop while the kill flag is set copies no
\* file: no shutil.copy2 call is begun.
C19_Step ==
    (check_kill_signal /\ pc = "copy_loop") =>
        /\ copied' = copied
        /\ Count(calls', "copy2") = Count(calls, "copy2")

\* C19: inside the copy loop the cancellation flag is checked before each
\* file: once it is set, no file whose copy had not begun is copied.
C19_KillCheckedBeforeEachFile == [][C19_Step]_vars

---------------------------------------------------------------------------
(* C20 *)

CopyFailedAt(i) == calls[i].op = "copy2" /\ calls[i].result # "ok"

\* C20: a failure of shutil.copy2 on one file aborts the whole copy: nothing
\* but cleanup is called after it, so no later file is copied and
\* post-processing is not entered; the files copied are those before it in
\* the walk; the exception is reported in red; cleanup runs once and the run
\* ends as a failure.
C20_CopyFailureAborts ==
    \A i \in 1..Len(calls) :
        CopyFailedAt(i) =>
            /\ \A j \in (i + 1)..Len(calls) : calls[j].op = "cleanup"
            /\ copied = [k \in 1..(file - 1) |-> k]
            /\ pc \in {"cleanup", "final_report", "done"} =>
                  /\ \E k \in 1..Len(reports) : reports[k] = <<"str(error)", "red">>
                  /\ (gui /\ ~replaced) => gui_error = "str(error)"
            /\ Ended => (Failed /\ Count(calls, "cleanup") = 1)

\* The copy of the first of two files failed with an I/O error and the run
\* has ended.
C20_Witness ==
    /\ Ended
    /\ HasResult("copy2", "raised")
    /\ file = 1
    /\ Len(tree) = 2

---------------------------------------------------------------------------
(* C21 *)

SuccessReported ==
    \E k \in 1..Len(reports) : reports[k] = <<"Flashing completed successfully!", "green">>

\* C21: the report "Flashing completed successfully!" is made only by a run
\* that ends in Success: its try block was left normally and it recorded no
\* fatal error; a run that failed or was cancelled never makes it.
C21_SuccessReportOnlyOnSuccess ==
    SuccessReported =>
        /\ pending = "normal"
        /\ ReportCount("red") = 0
        /\ Ended => Success

---------------------------------------------------------------------------
(* C22 *)

\* What flash_device was about to do when the finally block began
OutcomeBeforeCleanup ==
    CASE pending = "return_1" -> "returned_1"
      [] pending = "SystemExit" -> "SystemExit"
      [] OTHER -> "returned_None"

\* C22: a failure of the removal of the scratch directory inside cleanup does
\* not propagate out of flash_device and does not change the outcome the run
\* had before cleanup started.
C22_CleanupFailureNotRaised ==
    (Ended /\ CleanupRaised) =>
        /\ outcome # "Exception"
        /\ outcome = OutcomeBeforeCleanup

---------------------------------------------------------------------------
(* C23 *)

\* C23: once flash_device has been left, the source image that
\* mount_source_filesystem attached is attached no longer: cleanup has
\* unmounted it, on every exit path.
C23_MountsReleased == Ended => ~source_mounted

---------------------------------------------------------------------------
(* C24 *)

\* Most reports already made when an operation is called.
MaxReports == 16

system_commands == {"diskpart", "PowerShell"}

\* print_with_color(text, "red") leaves by sys.exit() when a handler is
\* attached, and returns when none is.
RedExits == gui

\* check_runtime_dependencies: for each of diskpart and PowerShell that
\* shutil.which does not find, a red report and result = "failed"; after the
\* loop RuntimeError is raised if the result is not "success".
check_runtime_dependencies ==
    /\ pc = "idle"
    /\ outcome = ""
    /\ Len(reports) < MaxReports
    /\ \E missing \in SUBSET system_commands :
        LET s1 == IF "diskpart" \in missing
                  THEN print_with_color(Sink, "Error: diskpart is not found.", "red")
                  ELSE Sink
            exited == "diskpart" \in missing /\ RedExits
            s2 == IF ~exited /\ "PowerShell" \in missing
                  THEN print_with_color(s1, "Error: PowerShell is not found.", "red")
                  ELSE s1
        IN  /\ SetSink(s2)
            /\ outcome' = IF missing = {} THEN ""
                          ELSE IF RedExits THEN "SystemExit" ELSE "RuntimeError"
    /\ UNCHANGED <<gui, mountpoints, extractions, kill_at, pc, req, target_filesystem_type, tree, calls, idx,
                   copied, CopyFiles_handle, stop, file, temp_directory, pending,
                   second_cleanup, params, params_result, source_mounted, replaced,
                   message>>

\* workaround.make_system_realize_partition_table_changed: a report, the
\* diskpart rescan, a report of its result (red when the exit code is not 0),
\* then the report of the wait, and the function returns.
make_system_realize_partition_table_changed ==
    /\ pc = "idle"
    /\ outcome = ""
    /\ Len(reports) < MaxReports
    /\ \E returncode \in {0, 1} :
        LET s1 == print_with_color(Sink,
                      "Making system realize that partition table has changed...", "")
            s2 == IF returncode = 0
                  THEN print_with_color(s1,
                           "Partition table refresh completed successfully.", "")
                  ELSE print_with_color(s1, "Error refreshing partition table", "red")
            exited == returncode # 0 /\ RedExits
            s3 == IF exited THEN s2
                  ELSE print_with_color(s2,
                           "Wait 3 seconds for disk partition changes to take effect...", "")
        IN  /\ SetSink(s3)
            /\ outcome' = IF exited THEN "SystemExit" ELSE ""
    /\ UNCHANGED <<gui, mountpoints, extractions, kill_at, pc, req, target_filesystem_type, tree, calls, idx,
                   copied, CopyFiles_handle, stop, file, temp_directory, pending,
                   second_cleanup, params, params_result, source_mounted, replaced,
                   message>>

NextReports ==
    \/ check_runtime_dependencies
    \/ make_system_realize_partition_table_changed

SpecReports == Init /\ [][NextReports]_vars

\* In the reports one operation makes, a red report is the last one, and the
\* operation is then left with an error.
C24_Step ==
    \A k \in (Len(reports) + 1)..Len(reports') :
        reports'[k][2] = "red" =>
            /\ k = Len(reports')
            /\ outcome' # ""

\* C24: a red report terminates the operation that makes it, with a handler
\* attached and without one: nothing that follows the report in that
\* operation is executed, and the operation is left with an error.
C24_FatalReportAborts == [][C24_Step]_vars

---------------------------------------------------------------------------
(* C25 *)

PostProcessingEntered == \E i \in 1..Len(calls) : calls[i].op \in PostProcessingOps

\* C25: post-processing is entered if and only if the resolved type is NTFS
\* and the copy completed: no post-processing step is made otherwise, a
\* resolved FAT type in particular makes none and no network fetch; and once
\* the copy has completed with NTFS, the next call of flash_device is
\* create_uefi_ntfs_support_partition, with install_uefi_ntfs_support_partition
\* after it.
C25_PostProcessingIffNTFS ==
    /\ PostProcessingEntered => (target_filesystem_type = "NTFS" /\ CopyCompleted)
    /\ target_filesystem_type = "FAT" => ~Has("urlretrieve")
    /\ (CopyCompleted /\ target_filesystem_type = "NTFS") =>
          (pc = "uefi_create" \/ Has("create_uefi_ntfs_support_partition"))
    /\ (CopyCompleted /\ target_filesystem_type = "FAT") => pc \in {"cleanup", "final_report", "done"}
    /\ Has("install_uefi_ntfs_support_partition") => Has("create_uefi_ntfs_support_partition")

\* A FAT request escalated to NTFS whose post-processing reached the network
\* fetch.
C25_Witness ==
    /\ Escalated
    /\ Has("urlretrieve")
    /\ CopyCompleted

---------------------------------------------------------------------------
(* C26 *)

\* The threads keep running: a step that can be taken is taken.
SpecFair == Spec /\ WF_vars(Next)

\* The status text that names the k-th file of the walk
CurrentFileStatus(k) == ToString(k)

\* Some report made so far names the file CopyFiles_handle.file holds
FileRelayed ==
    \E i \in 1..Len(reports) : reports[i][1] = CurrentFileStatus(file)

\* C26: while a copy is in flight the progress thread relays the current-file
\* field through the status sink: after the copier has set a current file,
\* the reported status eventually names that file.
C26_CurrentFileRelayed == [](file # 0 => <>FileRelayed)

---------------------------------------------------------------------------
(* C27 *)

\* C27: every create_target_partition call of a run, the one made by
\* format_target_device on a device without partition included, is given the
\* resolved filesystem type and the label of the request.
C27_ResolvedTypeAndLabel ==
    \A i \in 1..Len(calls) :
        calls[i].op = "create_target_partition" =>
            /\ calls[i].fs = target_filesystem_type
            /\ calls[i].label = req.filesystem_label

---------------------------------------------------------------------------
(* C28 *)

NotAdmin == HasResult("is_admin", "no") \/ HasResult("is_admin", "raised")

\* C28: without administrator privileges flash_device mounts nothing, modifies
\* nothing and copies nothing: is_admin and cleanup are its only calls; cleanup
\* runs once and removes the scratch directory, and the run ends as a failure,
\* returning 1 (with the exception of rmtree, the directory left, when rmtree
\* itself fails).
C28_NotAdminDoesNothing ==
    NotAdmin =>
        /\ Ops(calls) \subseteq {"is_admin", "cleanup"}
        /\ ~source_mounted
        /\ copied = <<>>
        /\ pc \in {"cleanup", "final_report", "done"}
        /\ Ended =>
              /\ Count(calls, "cleanup") = 1
              /\ Failed
              /\ IF CleanupRaised
                 THEN outcome = "Exception"
                 ELSE outcome = "returned_1" /\ ~temp_directory

\* A run without administrator privileges that has returned 1, with a
\* handler attached.
C28_Witness ==
    /\ HasResult("is_admin", "no")
    /\ gui
    /\ outcome = "returned_1"
    /\ ~temp_directory

---------------------------------------------------------------------------
(* C29 *)

\* The operations that begin with check_kill_signal()
KillChecked == {"copy_filesystem_files", "install_uefi_ntfs_support_partition"}

\* A kill check made by the pipeline thread while the kill flag of its
\* session's handler is set sees the flag and aborts.
C29_Step ==
    (gui /\ gui_kill /\ Len(calls') = Len(calls) + 1) =>
        LET c == calls'[Len(calls')]
        IN  c.op \in KillChecked => c.result = "killed"

\* C29: once the user has set the kill flag of a session's handler, the next
\* kill check of that session's pipeline thread sees it and aborts, also when
\* a new handler has been constructed in between.
C29_KillStaysObservable == [][C29_Step]_vars

---------------------------------------------------------------------------
(* C30 *)

\* C30: "Installation succeeded!" is shown only when the pipeline of the
\* handler thread ran to completion without error: never after the user
\* confirmed the cancellation, never when the thread ended by an exception,
\* never while it is still running.
C30_SucceededOnlyAfterSuccess ==
    message = "succeeded" =>
        /\ kill_at = ""
        /\ Ended
        /\ Success

---------------------------------------------------------------------------
(* C31 *)

\* Most calls of support_windows_7_uefi_boot on the same media.
MaxInvocations == 2

\* What the workaround looks at on the source mountpoint: whether
\* sources\cversion.ini has a line MinServer=7xxx.x, and whether bootmgr.efi
\* is a file.
SourceFacts == {"MinServer=7", "bootmgr.efi"}

\* The paths of the target mountpoint the workaround looks at or makes
efi_directory == "efi"

efi_boot_directory == "boot"

\* os.path.join(efi_directory, "boot", "bootx64.efi")
efi_bootloader_path == "efi/boot/bootx64.efi"

\* os.path.join(efi_boot_directory, "bootx64.efi"), the file that is written
target_bootloader == "boot/bootx64.efi"

TargetPaths == {efi_directory, "efi/boot", efi_bootloader_path,
                efi_boot_directory, target_bootloader}

\* A target tree: a path is there only with the directories above it
TargetTrees ==
    {t \in SUBSET TargetPaths :
        /\ "efi/boot" \in t => efi_directory \in t
        /\ efi_bootloader_path \in t => "efi/boot" \in t
        /\ target_bootloader \in t => efi_boot_directory \in t}

\* The media as flashing left them: a mounted source and a target holding
\* the files copied to it.
mount_media ==
    /\ pc = "idle"
    /\ ~mountpoints.mounted
    /\ \E s \in SUBSET SourceFacts, t \in TargetTrees :
        mountpoints' = [source |-> s, target |-> t, mounted |-> TRUE]
    /\ UNCHANGED <<gui, kill_at, gui_state, gui_error, reports, pc, req,
                   target_filesystem_type, tree, calls, idx, copied,
                   CopyFiles_handle, stop, file, temp_directory, pending, outcome,
                   second_cleanup, params, params_result, source_mounted, replaced,
                   message, extractions>>

\* workaround.support_windows_7_uefi_boot.  The source is skipped when it is
\* not Windows 7 with EFI support.  Else the directories efi and boot are made
\* on the target if missing; if efi/boot/bootx64.efi is a file the extraction
\* is skipped; else 7z extracts bootmgfw.efi ("failed": 7z exits non-zero,
\* which subprocess.run without check=True does not notice; "raised": 7z
\* cannot be started or the file cannot be written) and its output is written
\* to boot/bootx64.efi.
support_windows_7_uefi_boot ==
    /\ pc = "idle"
    /\ mountpoints.mounted
    /\ Len(extractions) < MaxInvocations
    /\ LET source == mountpoints.source
           target == mountpoints.target \cup {efi_directory, efi_boot_directory}
           s1 == print_with_color(Sink,
                     "Source media seems to be Windows 7-based with EFI support, applying workaround to make it support UEFI booting",
                     "yellow")
       IN  CASE source = {} ->
                   /\ extractions' = Append(extractions, "not_windows_7")
                   /\ UNCHANGED <<mountpoints, gui_state, gui_error, reports>>
             [] source # {} /\ efi_bootloader_path \in target ->
                   /\ extractions' = Append(extractions, "skipped")
                   /\ mountpoints' = [mountpoints EXCEPT !.target = target]
                   /\ SetSink(print_with_color(s1,
                          "INFO: Detected existing EFI bootloader, workaround skipped.", ""))
             [] OTHER ->
                   \E result \in {"ok", "failed", "raised"} :
                       LET s2 == print_with_color(s1, "Extracting EFI bootloader...", "")
                       IN  IF result = "raised"
                           THEN /\ extractions' = Append(extractions, "raised")
                                /\ mountpoints' = [mountpoints EXCEPT !.target = target]
                                /\ SetSink(s2)
                           ELSE /\ extractions' = Append(extractions, "extracted")
                                /\ mountpoints' = [mountpoints EXCEPT
                                       !.target = target \cup {target_bootloader}]
                                /\ SetSink(print_with_color(s2,
                                       "EFI bootloader extracted and placed in the EFI/boot directory.",
                                       ""))
    /\ UNCHANGED <<gui, kill_at, pc, req, target_filesystem_type, tree, calls, idx,
                   copied, CopyFiles_handle, stop, file, temp_directory, pending,
                   outcome, second_cleanup, params, params_result, source_mounted,
                   replaced, message>>

NextWorkaround ==
    \/ mount_media
    \/ support_windows_7_uefi_boot

SpecWorkaround == Init /\ [][NextWorkaround]_vars

\* C31: the workaround skips the extraction when a bootloader already exists
\* on the target: a call made after a call that extracted the bootloader, on
\* the same source and target, detects it and writes nothing: the
\* extraction happens at most once.
C31_ExtractionAtMostOnce ==
    \A i \in 1..Len(extractions) :
        extractions[i] = "extracted" =>
            \A j \in (i + 1)..Len(extractions) : extractions[j] # "extracted"

====
